---- MODULE Spec2Model ----
(***************************************************************************)
(* The playback source controller of cloud-movie-stream.                   *)
(*                                                                         *)
(* The repository holds the player in several variants; `variant` says     *)
(* which one a behaviour runs:                                             *)
(*   "direct_embed" : src/unnamed/part_005: React state, the promise of    *)
(*           every tryDirectVideo call with its listeners and its          *)
(*           never-cleared 10 s timer, the extractDirectVideoUrl fetches   *)
(*           in flight, the <video>/<iframe> elements the render mounts.   *)
(*   "videojs"      : src/src/components/VideoPlayer.tsx (lines 42-971):   *)
(*           React state, the video.js player of the current effect run,   *)
(*           its one-shot listeners and the retry timers of onError.       *)
(*                                                                         *)
(* An action is one task of the browser's event loop: the handler, the     *)
(* microtasks it leaves (the catch of a rejected tryDirectVideo), React's  *)
(* re-render and the effects the render schedules.                         *)
(***************************************************************************)
EXTENDS Integers, Sequences, FiniteSets, TLC

\* ---------------------------------------------------------------- bounds
MaxSources == 3
MaxCmds == 3
\* videojs: `if (retryCountRef.current < 3)`
MaxRetries == 3
\* attempts logged before the model stops the video.js retry timers
MaxLog == MaxRetries * MaxSources + 1
\* the duration of the loaded video, in seconds
MaxDuration == 15
\* const SKIP_DURATION = 10
SKIP_DURATION == 10

\* -------------------------------------------------------------- the state
VARIABLES
    variant,          \* which VideoPlayer component is mounted
    videoSources,     \* the candidate list: the kind of every source, in order
    isOpen,           \* the isOpen prop (Index: !!playingMovie)
    currentSource,    \* useState(0)
    hasError,         \* useState(false)
    errorMessage,     \* useState(''), as the message's class
    isLoading,        \* useState(true)
    useIframe,        \* useState(false)
    canPlayDirectly,  \* useState(false)
    capIsLoading,     \* the isLoading the current tryLoadSource's tryDirectVideo closed over
    attempts,         \* the tryLoadSource calls still able to run code, oldest first
    micro,            \* rejected promises whose catch has not run yet (empty between tasks)
    videoEl,          \* videoRef.current: 0 = null, else the mounted <video>'s identity
    elCount,          \* <video> elements mounted so far
    iframeLoad,       \* the <iframe>: "none" (not mounted), "loading", "loaded"
    iframeSrc,        \* the index whose url the mounted <iframe> shows
    deadTimers,       \* 10 s timers still pending whose promise is already settled
    retryCount,       \* videojs: retryCountRef.current
    player,           \* videojs: the player of the last effect run and its listeners
    retryTimer,       \* videojs: the index the pending retry timer of that player will try, or -1
    staleTimers,      \* videojs: pending retry timers of disposed players
    isPlaying,        \* useState(false)
    isMuted,          \* useState(false)
    volume,           \* useState(1), in tenths
    progress,         \* useState(0), in seconds
    playbackRate,     \* useState(1)
    isBuffering,      \* useState(false)
    video,            \* the <video> element: paused, muted, volume, currentTime, playbackRate
    now,              \* Date.now()
    requests,         \* RateLimiter.requests: the timestamps stored for every key
    fetched,          \* history: the Date.now() of every fetch() the TMDB client has made
    lastCheck,        \* history: the last isAllowed call, its key, time and result
    lastCall,         \* history: the last call of the TMDB service and what came of it
    handled,          \* history: the last two errors given to handleSecureError, with its answers
    attemptLog,       \* history: the index of every source attempt, in order
    nCmds,            \* history: user commands so far (open, close, next, reset)
    succeeded         \* history: some source has signalled success

sharedVars == <<variant, videoSources, isOpen, currentSource, hasError, errorMessage,
                isLoading, attemptLog, nCmds, succeeded>>

deVars == <<useIframe, canPlayDirectly, capIsLoading, attempts, micro, videoEl,
            elCount, iframeLoad, iframeSrc, deadTimers>>

vjVars == <<retryCount, player, retryTimer, staleTimers>>

ctlVars == <<isPlaying, isMuted, volume, progress, playbackRate, isBuffering, video>>

tmdbVars == <<now, requests, fetched, lastCheck, lastCall, handled>>

vars == <<sharedVars, deVars, vjVars, ctlVars, tmdbVars>>

Kinds == {"direct", "embed"}

SourceLists == UNION {[1..n -> Kinds] : n \in 1..MaxSources}

\* The video.js variant's sources are plain urls, all of type application/x-mpegURL.
HlsLists == {[k \in 1..n |-> "hls"] : n \in 1..MaxSources}

Messages == {"", "loading", "failed_next", "all_failed", "all_tried"}

\* videoSources.length and videoSources[i].type, with the code's 0-based index
NumSources(s) == Len(s.videoSources)

KindOf(s, i) == s.videoSources[i + 1]

\* The whole state as one record, so that a handler is a function on it.
Cur ==
    [videoSources |-> videoSources, isOpen |-> isOpen,
     currentSource |-> currentSource, hasError |-> hasError,
     errorMessage |-> errorMessage, isLoading |-> isLoading,
     useIframe |-> useIframe, canPlayDirectly |-> canPlayDirectly,
     capIsLoading |-> capIsLoading, attempts |-> attempts, micro |-> micro,
     videoEl |-> videoEl, elCount |-> elCount, iframeLoad |-> iframeLoad,
     iframeSrc |-> iframeSrc, deadTimers |-> deadTimers,
     attemptLog |-> attemptLog]

\* The fields the view layer reads: the session state of the claims.
Session(s) ==
    <<s.currentSource, s.hasError, s.errorMessage, s.isLoading, s.useIframe,
      s.canPlayDirectly>>

\* ------------------------------------------------------------ the handlers

\* handleError(error, sourceIndex)
HandleError(s, sourceIndex) ==
    IF sourceIndex < NumSources(s) - 1
    THEN [s EXCEPT !.currentSource = sourceIndex + 1,
                   !.errorMessage = "failed_next",
                   !.isLoading = TRUE]
    ELSE [s EXCEPT !.hasError = TRUE,
                   !.isLoading = FALSE,
                   !.errorMessage = "all_failed"]

\* tryDirectVideo(url, sourceIndex): without a <video> the promise is rejected at
\* once; otherwise the four listeners are bound to the mounted element, its src is
\* set and the 10 s timer is started.  `cap` is the isLoading the timer will read.
TryDirectVideo(s, sourceIndex, latest, cap) ==
    IF s.videoEl = 0
    THEN [s EXCEPT !.micro = Append(@, sourceIndex)]
    ELSE [s EXCEPT !.attempts = Append(@,
              [idx |-> sourceIndex, latest |-> latest, stage |-> "direct",
               el |-> s.videoEl, settled |-> FALSE, timer |-> TRUE, cap |-> cap])]

\* A new attempt supersedes every attempt started before it.
Supersede(as) == [k \in 1..Len(as) |-> [as[k] EXCEPT !.latest = FALSE]]

\* tryLoadSource(sourceIndex), up to its first await
TryLoadSource(s, sourceIndex) ==
    IF sourceIndex >= NumSources(s)
    THEN HandleError(s, sourceIndex)
    ELSE LET s1 == [s EXCEPT !.isLoading = TRUE,
                             !.hasError = FALSE,
                             !.errorMessage = "loading",
                             !.useIframe = FALSE,
                             !.canPlayDirectly = FALSE,
                             !.attempts = Supersede(@),
                             !.attemptLog = Append(@, sourceIndex)]
         IN  IF KindOf(s, sourceIndex) = "direct"
             THEN TryDirectVideo(s1, sourceIndex, TRUE, s.capIsLoading)
             ELSE [s1 EXCEPT !.attempts = Append(@,
                      [idx |-> sourceIndex, latest |-> TRUE, stage |-> "extract",
                       el |-> 0, settled |-> FALSE, timer |-> FALSE,
                       cap |-> s.capIsLoading])]

\* The catch of tryLoadSource, for every promise rejected in this task.
RECURSIVE Drain(_)
Drain(s) ==
    IF s.micro = <<>> THEN s
    ELSE Drain(HandleError([s EXCEPT !.micro = Tail(@)], Head(s.micro)))

\* React's commit: the <video> is rendered when the player is open and shows
\* neither the error view nor the iframe, the <iframe> when it is open, has no
\* error and useIframe is set; a changed src makes the iframe load again.
VideoShown(s) == s.isOpen /\ ~s.hasError /\ ~s.useIframe

IframeShown(s) == s.isOpen /\ ~s.hasError /\ s.useIframe

Commit(s) ==
    LET v == IF ~VideoShown(s) THEN [s EXCEPT !.videoEl = 0]
             ELSE IF s.videoEl # 0 THEN s
             ELSE [s EXCEPT !.videoEl = s.elCount + 1, !.elCount = s.elCount + 1]
    IN  IF ~IframeShown(v) THEN [v EXCEPT !.iframeLoad = "none", !.iframeSrc = 0]
        ELSE IF v.iframeLoad # "none" /\ v.iframeSrc = v.currentSource THEN v
        ELSE [v EXCEPT !.iframeLoad = "loading", !.iframeSrc = v.currentSource]

\* A settled promise runs no more code: its attempt is forgotten; its timer, never
\* cleared, stays pending.  Elements are renamed by age, so that an element's
\* identity says no more than which listeners share it.
Unsettled(a) == ~a.settled

SettledWithTimer(a) == a.settled /\ a.timer

ElementsOf(s) == ({s.attempts[k].el : k \in 1..Len(s.attempts)} \cup {s.videoEl}) \ {0}

Rank(E, e) == IF e = 0 THEN 0 ELSE Cardinality({x \in E : x <= e})

Rename(s) ==
    LET E == ElementsOf(s)
    IN  [s EXCEPT !.videoEl = Rank(E, @),
                  !.elCount = Cardinality(E),
                  !.attempts = [k \in 1..Len(@) |-> [@[k] EXCEPT !.el = Rank(E, @)]]]

Collect(s) ==
    Rename([s EXCEPT !.attempts = SelectSeq(@, Unsettled),
                     !.deadTimers = @ + Len(SelectSeq(s.attempts, SettledWithTimer))])

\* After a task: the microtasks, the commit, and the source-change effect
\*   useEffect(() => { if (currentSource > 0) tryLoadSource(currentSource) },
\*             [currentSource, tryLoadSource])
\* which runs again while the currentSource it rendered with keeps changing.
RECURSIVE Flush(_, _)
Flush(s, renderedSource) ==
    LET c == Commit(Drain(s))
    IN  IF c.currentSource # renderedSource /\ c.currentSource > 0
        THEN Flush(TryLoadSource(c, c.currentSource), c.currentSource)
        ELSE Collect(c)

\* resetPlayer()
ResetPlayerFn(s) ==
    [s EXCEPT !.currentSource = 0, !.hasError = FALSE, !.errorMessage = "",
              !.isLoading = TRUE, !.useIframe = FALSE, !.canPlayDirectly = FALSE]

\* switchToNextSource()
SwitchToNextSourceFn(s) ==
    IF s.currentSource < NumSources(s) - 1
    THEN [s EXCEPT !.currentSource = s.currentSource + 1]
    ELSE [s EXCEPT !.hasError = TRUE, !.errorMessage = "all_tried"]

\* The player-initialisation effect and the source-change effect of the render
\* in which isOpen and movieId change: both see the state of that render.
InitEffect(s) ==
    IF ~s.isOpen THEN s
    ELSE TryLoadSource([s EXCEPT !.currentSource = 0, !.hasError = FALSE,
                                 !.isLoading = TRUE], 0)

SourceEffect(s, renderedSource) ==
    IF renderedSource > 0 THEN TryLoadSource(s, renderedSource) ELSE s

\* Index flips playingMovie: movieId changes with isOpen, so videoSources,
\* handleError and tryLoadSource are new closures, and both effects run.
PropsChange(s, open) ==
    LET r == Commit([s EXCEPT !.isOpen = open, !.capIsLoading = s.isLoading])
    IN  Flush(SourceEffect(InitEffect(r), s.currentSource), s.currentSource)

\* The index of an attempt in `attempts` that listens on element e, oldest first.
Listening(s, e) ==
    {k \in 1..Len(s.attempts) :
        /\ s.attempts[k].stage = "direct"
        /\ ~s.attempts[k].settled
        /\ s.attempts[k].el = e}

Settle(s, k) == [s EXCEPT !.attempts[k].settled = TRUE]

\* onLoadedData with the iframe switched on instead of off
OnLoadedData_IframeOn(s, k) ==
    [Settle(s, k) EXCEPT !.isLoading = FALSE, !.canPlayDirectly = TRUE,
                         !.useIframe = TRUE]

\* onLoadedData of attempt k
OnLoadedData(s, k) ==
    [Settle(s, k) EXCEPT !.isLoading = FALSE, !.canPlayDirectly = TRUE,
                         !.useIframe = FALSE]

\* onError of attempt k: cleanup, reject, and the catch of its tryLoadSource
OnError(s, k) == HandleError(Settle(s, k), s.attempts[k].idx)

\* An event of element e reaches every listener bound to it, in binding order.
RECURSIVE Dispatch(_, _, _)
Dispatch(s, ks, loaded) ==
    IF ks = {} THEN s
    ELSE LET k == CHOOSE x \in ks : \A y \in ks : x <= y
         IN  Dispatch(IF loaded THEN OnLoadedData(s, k) ELSE OnError(s, k),
                      ks \ {k}, loaded)

\* The 10 s timer of attempt k: `if (isLoading) { cleanup(); reject(...) }`
\* with the isLoading of the closure; rejecting a settled promise does nothing.
OnTimeout(s, k) ==
    LET a == s.attempts[k]
        t == [s EXCEPT !.attempts[k].timer = FALSE]
    IN  IF a.cap /\ ~a.settled THEN HandleError(Settle(t, k), a.idx) ELSE t

\* extractDirectVideoUrl resolved for attempt k, with a url or with null
OnExtracted(s, k, found) ==
    LET a == s.attempts[k]
        rest == [s EXCEPT !.attempts =
                    SubSeq(@, 1, k - 1) \o SubSeq(@, k + 1, Len(@))]
    IN  IF found
        THEN TryDirectVideo(rest, a.idx, a.latest, a.cap)
        ELSE [rest EXCEPT !.useIframe = TRUE, !.isLoading = FALSE,
                          !.canPlayDirectly = FALSE]

\* ------------------------------------------------------------- the actions

Becomes(n) ==
    /\ variant = "direct_embed"
    /\ UNCHANGED <<variant, vjVars, ctlVars, tmdbVars>>
    /\ videoSources' = n.videoSources
    /\ isOpen' = n.isOpen
    /\ currentSource' = n.currentSource
    /\ hasError' = n.hasError
    /\ errorMessage' = n.errorMessage
    /\ isLoading' = n.isLoading
    /\ useIframe' = n.useIframe
    /\ canPlayDirectly' = n.canPlayDirectly
    /\ capIsLoading' = n.capIsLoading
    /\ attempts' = n.attempts
    /\ micro' = n.micro
    /\ videoEl' = n.videoEl
    /\ elCount' = n.elCount
    /\ iframeLoad' = n.iframeLoad
    /\ iframeSrc' = n.iframeSrc
    /\ deadTimers' = n.deadTimers
    /\ attemptLog' = n.attemptLog

Signal(n, success) ==
    Becomes(n) /\ UNCHANGED nCmds /\ succeeded' = (succeeded \/ success)

Command(n) ==
    nCmds < MaxCmds /\ nCmds' = nCmds + 1 /\ Becomes(n) /\ UNCHANGED succeeded

\* Index.handlePlayMovie: the player is opened on a movie.
Open == ~isOpen /\ Command(PropsChange(Cur, TRUE))

\* onClose: the close button, "Back to Movies".
Close == isOpen /\ Command(PropsChange(Cur, FALSE))

\* "Try Again" of the error view, the reset button of the direct controls and of
\* the alternative-source panel.
ResetPlayer ==
    /\ isOpen
    /\ hasError \/ canPlayDirectly \/ (isLoading /\ currentSource > 0)
    /\ Command(Flush(ResetPlayerFn(Cur), currentSource))

\* "Try Next Source": the source switch button and the alternative-source panel.
SwitchToNextSource ==
    /\ isOpen
    /\ \/ ~isLoading /\ ~hasError /\ currentSource < Len(videoSources) - 1
       \/ isLoading /\ currentSource > 0
    /\ Command(Flush(SwitchToNextSourceFn(Cur), currentSource))

Elements == {attempts[k].el : k \in 1..Len(attempts)} \ {0}

\* The media element e fires loadeddata (loaded) or error.
VideoEvent(e, loaded) ==
    /\ Listening(Cur, e) # {}
    /\ Signal(Flush(Dispatch(Cur, Listening(Cur, e), loaded), currentSource), loaded)

VideoLoadedData == \E e \in Elements : VideoEvent(e, TRUE)

VideoError == \E e \in Elements : VideoEvent(e, FALSE)

\* The 10 s timer of attempt k fires.
TimeoutOf(k) ==
    /\ attempts[k].timer
    /\ Signal(Flush(OnTimeout(Cur, k), currentSource), FALSE)

Timeout == \E k \in 1..Len(attempts) : TimeoutOf(k)

\* The HEAD requests of attempt k's extractDirectVideoUrl are answered.
ExtractedOf(k, found) ==
    /\ attempts[k].stage = "extract"
    /\ Signal(Flush(OnExtracted(Cur, k, found), currentSource), ~found)

Extracted == \E k \in 1..Len(attempts), found \in BOOLEAN : ExtractedOf(k, found)

\* The <iframe> fires load: onLoad={() => setIsLoading(false)}
IframeLoaded ==
    /\ iframeLoad = "loading"
    /\ Signal(Flush([Cur EXCEPT !.iframeLoad = "loaded", !.isLoading = FALSE],
                    currentSource), TRUE)

\* The 10 s timer of a settled promise fires: cleanup() and reject() do nothing.
DeadTimeout ==
    /\ deadTimers > 0
    /\ Signal([Cur EXCEPT !.deadTimers = @ - 1], FALSE)

\* ------------------------------------------------- the video.js variant

NoPlayer == [alive |-> FALSE, readyPending |-> FALSE, onError |-> -1,
             onLoadedData |-> FALSE]

VCur ==
    [videoSources |-> videoSources, isOpen |-> isOpen,
     currentSource |-> currentSource, hasError |-> hasError,
     errorMessage |-> errorMessage, isLoading |-> isLoading,
     retryCount |-> retryCount, player |-> player, retryTimer |-> retryTimer,
     staleTimers |-> staleTimers, attemptLog |-> attemptLog]

\* handleError(error, sourceIndex) of VideoPlayer.tsx: isLoading is left alone
\* when the player advances.
VjHandleError(s, sourceIndex) ==
    IF sourceIndex < NumSources(s) - 1
    THEN [s EXCEPT !.currentSource = sourceIndex + 1,
                   !.errorMessage = "failed_next"]
    ELSE [s EXCEPT !.hasError = TRUE,
                   !.isLoading = FALSE,
                   !.errorMessage = "all_failed"]

\* trySource(sourceIndex) on a player that is not disposed: player.src, then
\* the one-shot error and loadeddata listeners replace the earlier ones.
VjTrySource(s, sourceIndex) ==
    IF sourceIndex >= NumSources(s)
    THEN VjHandleError(s, sourceIndex)
    ELSE [s EXCEPT !.isLoading = TRUE,
                   !.hasError = FALSE,
                   !.errorMessage = "",
                   !.player.onError = sourceIndex,
                   !.player.onLoadedData = TRUE,
                   !.attemptLog = Append(@, sourceIndex)]

\* The cleanup of the player effect: dispose() drops the player's listeners,
\* not the retry timers onError has set.
VjCleanup(s) ==
    IF ~s.player.alive THEN s
    ELSE [s EXCEPT !.player = NoPlayer,
                   !.retryTimer = -1,
                   !.staleTimers = @ + (IF s.retryTimer >= 0 THEN 1 ELSE 0)]

\* The player effect, run when isOpen, movieId or currentSource has changed:
\* `if (!isOpen || !videoRef.current) return`, and the <video> is rendered when
\* the player is open and shows no error view.
VjEffect(s) ==
    LET c == VjCleanup(s)
    IN  IF ~c.isOpen \/ c.hasError THEN c
        ELSE VjTrySource([c EXCEPT !.player = [alive |-> TRUE,
                                               readyPending |-> TRUE,
                                               onError |-> -1,
                                               onLoadedData |-> FALSE]],
                         c.currentSource)

VjFlush(s, renderedSource) ==
    IF s.currentSource # renderedSource THEN VjEffect(s) ELSE s

\* onError of the attempt on sourceIndex
VjOnError(s, sourceIndex) ==
    LET n == s.retryCount + 1
        t == [s EXCEPT !.player.onError = -1]
    IN  IF n < MaxRetries
        THEN [t EXCEPT !.retryCount = n, !.retryTimer = sourceIndex]
        ELSE [VjHandleError(t, sourceIndex) EXCEPT !.retryCount = 0]

\* onLoadedData
VjOnLoadedData(s) ==
    [s EXCEPT !.hasError = FALSE, !.isLoading = FALSE, !.retryCount = 0,
              !.player.onLoadedData = FALSE]

\* onReady: the player, not the source, is ready
VjOnReady(s) == [s EXCEPT !.isLoading = FALSE, !.player.readyPending = FALSE]

\* A retry timer of a disposed player: trySource sets the state before it
\* touches the player, and a disposed player loads nothing.
VjStaleTrySource(s) ==
    [s EXCEPT !.isLoading = TRUE, !.hasError = FALSE, !.errorMessage = "",
              !.staleTimers = @ - 1]

\* resetPlayer() of VideoPlayer.tsx
VjResetPlayerFn(s) ==
    [s EXCEPT !.currentSource = 0, !.hasError = FALSE, !.errorMessage = "",
              !.isLoading = TRUE, !.retryCount = 0]

VjBecomes(n) ==
    /\ variant = "videojs"
    /\ UNCHANGED <<variant, deVars, ctlVars, tmdbVars>>
    /\ videoSources' = n.videoSources
    /\ isOpen' = n.isOpen
    /\ currentSource' = n.currentSource
    /\ hasError' = n.hasError
    /\ errorMessage' = n.errorMessage
    /\ isLoading' = n.isLoading
    /\ retryCount' = n.retryCount
    /\ player' = n.player
    /\ retryTimer' = n.retryTimer
    /\ staleTimers' = n.staleTimers
    /\ attemptLog' = n.attemptLog

VjSignal(n, success) ==
    VjBecomes(n) /\ UNCHANGED nCmds /\ succeeded' = (succeeded \/ success)

VjCommand(n) ==
    nCmds < MaxCmds /\ nCmds' = nCmds + 1 /\ VjBecomes(n) /\ UNCHANGED succeeded

VjOpen == ~isOpen /\ VjCommand(VjEffect([VCur EXCEPT !.isOpen = TRUE]))

VjClose == isOpen /\ VjCommand(VjEffect([VCur EXCEPT !.isOpen = FALSE]))

\* "Try Again" of the error view and the reset button of the control bar
VjResetPlayer ==
    isOpen /\ VjCommand(VjFlush(VjResetPlayerFn(VCur), currentSource))

\* The player fires ready, once.
VjReady ==
    /\ player.alive /\ player.readyPending
    /\ VjSignal(VjOnReady(VCur), FALSE)

\* The player fires error.
VjError ==
    /\ player.alive /\ player.onError >= 0
    /\ VjSignal(VjFlush(VjOnError(VCur, player.onError), currentSource), FALSE)

\* The player fires loadeddata.
VjLoadedData ==
    /\ player.alive /\ player.onLoadedData
    /\ VjSignal(VjOnLoadedData(VCur), TRUE)

\* setTimeout(() => trySource(sourceIndex), 1000 * retryCountRef.current) fires.
VjRetry ==
    /\ retryTimer >= 0
    /\ Len(attemptLog) < MaxLog
    /\ VjSignal(VjTrySource([VCur EXCEPT !.retryTimer = -1], retryTimer), FALSE)

\* The same timer, set by a player that has been disposed since.
VjStaleRetry ==
    /\ staleTimers > 0
    /\ VjSignal(VjStaleTrySource(VCur), FALSE)

\* ------------------------------------------------------- the specification

\* The playback controls before any of them is used, and a <video> as created.
NewVideo == [paused |-> TRUE, muted |-> FALSE, volume |-> 10, currentTime |-> 0,
             playbackRate |-> 1]

CtlInit ==
    /\ isPlaying = FALSE
    /\ isMuted = FALSE
    /\ volume = 10
    /\ progress = 0
    /\ playbackRate = 1
    /\ isBuffering = FALSE
    /\ video = NewVideo

\* The keys the rate limiter is asked about: fetchFromTMDB's clientId.
Keys == {"global"}

\* A value that is undefined, or a parameter that is not sent.
Undefined == "<undefined>"

NoCheck == [key |-> "", time |-> 0, allowed |-> TRUE]

NoCall ==
    [op |-> "", outcome |-> "", errClass |-> "", errMessage |-> "", event |-> "",
     sortIn |-> Undefined, sort_by |-> Undefined, query |-> <<>>, page |-> 0]

\* The TMDB client before its first call: `requests: Map = new Map()`.
TmdbInit ==
    /\ now = 0
    /\ requests = [k \in Keys |-> <<>>]
    /\ fetched = <<>>
    /\ lastCheck = NoCheck
    /\ lastCall = NoCall
    /\ handled = <<>>

Init ==
    /\ variant \in {"direct_embed", "videojs"}
    /\ videoSources \in (IF variant = "direct_embed" THEN SourceLists ELSE HlsLists)
    /\ isOpen = FALSE
    /\ currentSource = 0
    /\ hasError = FALSE
    /\ errorMessage = ""
    /\ isLoading = TRUE
    /\ useIframe = FALSE
    /\ canPlayDirectly = FALSE
    /\ capIsLoading = TRUE
    /\ attempts = <<>>
    /\ micro = <<>>
    /\ videoEl = 0
    /\ elCount = 0
    /\ iframeLoad = "none"
    /\ iframeSrc = 0
    /\ deadTimers = 0
    /\ retryCount = 0
    /\ player = NoPlayer
    /\ retryTimer = -1
    /\ staleTimers = 0
    /\ attemptLog = <<>>
    /\ nCmds = 0
    /\ succeeded = FALSE
    /\ CtlInit
    /\ TmdbInit

Next ==
    \/ Open
    \/ Close
    \/ ResetPlayer
    \/ SwitchToNextSource
    \/ VideoLoadedData
    \/ VideoError
    \/ Timeout
    \/ Extracted
    \/ IframeLoaded
    \/ DeadTimeout
    \/ VjOpen
    \/ VjClose
    \/ VjResetPlayer
    \/ VjReady
    \/ VjError
    \/ VjLoadedData
    \/ VjRetry
    \/ VjStaleRetry

Spec == Init /\ [][Next]_vars

TypeOK ==
    /\ currentSource \in 0..(Len(videoSources) - 1)
    /\ errorMessage \in Messages
    /\ micro = <<>>

\* ------------------------------------------------------------- the claims

N == Len(videoSources)

\* The indices 0, 1, .., k in order: every candidate up to k attempted once.
UpTo(k) == [j \in 1..(k + 1) |-> j - 1]

\* Only the command that opened the player has been issued.
NoCommand == nCmds = 1 /\ isOpen

PlayingDirect == canPlayDirectly /\ ~isLoading /\ ~hasError

PlayingEmbed == useIframe /\ ~isLoading /\ ~hasError

\* C1: with no user command and every attempt failing, the player is exhausted
\* after exactly N attempts: never more than N attempts, and N when exhausted.
C1_ExhaustedAfterExactlyN ==
    (NoCommand /\ ~succeeded) =>
        /\ Len(attemptLog) <= N
        /\ hasError => Len(attemptLog) = N

\* C2: without a user command no index is attempted a second time: the
\* attempts are 0, 1, 2, .. in order, each index once.
C2_NoAutomaticRetry ==
    NoCommand => attemptLog = UpTo(Len(attemptLog) - 1)

C4_IndexInRange ==
    /\ currentSource \in 0..(N - 1)
    /\ hasError => currentSource = N - 1

\* The attempts able to deliver an outcome.
InFlight ==
    IF variant = "direct_embed" THEN Len(attempts)
    ELSE staleTimers +
         (IF player.alive /\ (player.onError >= 0 \/ player.onLoadedData
                                \/ retryTimer >= 0)
          THEN 1 ELSE 0)

\* C5: at most one attempt is able to deliver an outcome.
C5_OneAttemptInFlight == InFlight <= 1

\* A signal of an attempt that a later attempt has superseded: its timer,
\* its extraction, a media event heard by superseded attempts only.
StaleSignal ==
    \/ \E k \in 1..Len(attempts) : ~attempts[k].latest /\ TimeoutOf(k)
    \/ \E k \in 1..Len(attempts), found \in BOOLEAN :
           ~attempts[k].latest /\ ExtractedOf(k, found)
    \/ \E e \in Elements, loaded \in BOOLEAN :
           /\ \A k \in Listening(Cur, e) : ~attempts[k].latest
           /\ VideoEvent(e, loaded)

\* The player was opened and one more command was issued, so that a
\* superseded attempt is one that a manual source switch superseded.
OneSwitch == nCmds = 2 /\ isOpen

\* C6: after a manual source switch, a signal of the attempt it superseded
\* changes no session state.
C6_StaleSignalIgnored ==
    [][(OneSwitch /\ StaleSignal) => Session(Cur)' = Session(Cur)]_vars

\* C7: while the player stays closed the session state does not change and no
\* attempt is started.
C7_NoTransitionAfterClose ==
    [][(~isOpen /\ ~isOpen') =>
          (Session(Cur)' = Session(Cur) /\ attemptLog' = attemptLog)]_vars

\* The attempt's 10 s timer is pending and will fail it when it fires.
Armed(a) == a.timer /\ a.cap

\* C8: whatever is in flight (a DIRECT or EMBED attempt, an iframe still
\* loading) has a pending timer that will fail it.
C8_EveryAttemptTimesOut ==
    variant = "direct_embed" =>
        /\ \A k \in 1..Len(attempts) : Armed(attempts[k])
        /\ iframeLoad = "loading" =>
               \E k \in 1..Len(attempts) :
                   attempts[k].idx = iframeSrc /\ Armed(attempts[k])

\* C9: an embedded source is shown as loaded only once its iframe has fired load.
C9_EmbedPlaysAfterLoad ==
    (variant = "direct_embed" /\ isOpen /\ PlayingEmbed) => iframeLoad = "loaded"

\* C10: candidates [DIRECT, EMBED], the first fails and the second plays
\* embedded: attempts 0 then 1, index 1, a message while the second loads and
\* none once it plays.
C10_MessageCleared ==
    (variant = "direct_embed" /\ NoCommand
        /\ videoSources = <<"direct", "embed">> /\ attemptLog = <<0, 1>>) =>
        /\ currentSource = 1
        /\ isLoading => errorMessage # ""
        /\ PlayingEmbed => errorMessage = ""

\* ------------------------------------------------- the playback controls
\* The controls of the player read canPlayDirectly, videoRef.current and the
\* render conditions only, so they are run from the modes in which the source
\* controller leaves the player open.

\* Slider values: the volume in tenths, the position in seconds.
VolumeLevels == {0, 5, 10}

Positions == {0, SKIP_DURATION, MaxDuration}

Rates == {1, 2}

Min(a, b) == IF a < b THEN a ELSE b

Max(a, b) == IF a > b THEN a ELSE b

\* <canPlayDirectly, useIframe, hasError, isLoading, videoRef.current mounted>:
\* a source loading, direct playback, embedded playback, and the error view
\* shown over a source that loaded in a detached <video>.
ControlModes ==
    {<<FALSE, FALSE, FALSE, TRUE, 1>>,
     <<TRUE, FALSE, FALSE, FALSE, 1>>,
     <<FALSE, TRUE, FALSE, FALSE, 0>>,
     <<TRUE, FALSE, TRUE, FALSE, 0>>}

\* `if (!canPlayDirectly || !videoRef.current) return`
DirectControl == canPlayDirectly /\ videoEl # 0

\* A control leaves the source controller and the buffering flag alone.
CtlStep == UNCHANGED <<sharedVars, deVars, vjVars, tmdbVars, isBuffering>>

DirectEmbedOpen == variant = "direct_embed" /\ isOpen

\* togglePlay, from the <video>'s onClick or the play button; play() may be refused
TogglePlay ==
    /\ DirectEmbedOpen /\ (VideoShown(Cur) \/ canPlayDirectly)
    /\ IF DirectControl
       THEN \E ok \in BOOLEAN :
               video' = [video EXCEPT !.paused = IF @ THEN ~ok ELSE TRUE]
       ELSE UNCHANGED video
    /\ UNCHANGED <<isPlaying, isMuted, volume, progress, playbackRate>>
    /\ CtlStep

\* toggleMute
ToggleMute ==
    /\ DirectEmbedOpen /\ canPlayDirectly
    /\ IF DirectControl
       THEN video' = [video EXCEPT !.muted = ~@]
       ELSE UNCHANGED video
    /\ UNCHANGED <<isPlaying, isMuted, volume, progress, playbackRate>>
    /\ CtlStep

\* handleVolumeChange(value)
HandleVolumeChange ==
    /\ DirectEmbedOpen /\ canPlayDirectly
    /\ \E value \in VolumeLevels :
          IF DirectControl
          THEN video' = [video EXCEPT !.volume = value,
                                      !.muted = IF value > 0 /\ @ THEN FALSE ELSE @]
          ELSE UNCHANGED video
    /\ UNCHANGED <<isPlaying, isMuted, volume, progress, playbackRate>>
    /\ CtlStep

\* skipForward, with duration the duration of the loaded video
SkipForward ==
    /\ DirectEmbedOpen /\ canPlayDirectly
    /\ IF DirectControl
       THEN video' = [video EXCEPT
                        !.currentTime = Min(MaxDuration, @ + SKIP_DURATION)]
       ELSE UNCHANGED video
    /\ UNCHANGED <<isPlaying, isMuted, volume, progress, playbackRate>>
    /\ CtlStep

\* skipBackward
SkipBackward ==
    /\ DirectEmbedOpen /\ canPlayDirectly
    /\ IF DirectControl
       THEN video' = [video EXCEPT !.currentTime = Max(0, @ - SKIP_DURATION)]
       ELSE UNCHANGED video
    /\ UNCHANGED <<isPlaying, isMuted, volume, progress, playbackRate>>
    /\ CtlStep

\* handleProgressChange(value)
HandleProgressChange ==
    /\ DirectEmbedOpen /\ canPlayDirectly
    /\ \E value \in Positions :
          IF DirectControl
          THEN video' = [video EXCEPT !.currentTime = value] /\ progress' = value
          ELSE UNCHANGED <<video, progress>>
    /\ UNCHANGED <<isPlaying, isMuted, volume, playbackRate>>
    /\ CtlStep

\* handlePlaybackRateChange(rate)
HandlePlaybackRateChange ==
    /\ DirectEmbedOpen /\ canPlayDirectly
    /\ \E rate \in Rates :
          IF DirectControl
          THEN video' = [video EXCEPT !.playbackRate = rate] /\ playbackRate' = rate
          ELSE UNCHANGED <<video, playbackRate>>
    /\ UNCHANGED <<isPlaying, isMuted, volume, progress>>
    /\ CtlStep

\* The pause button of the iframe overlay: onClick={() => setIsPlaying(!isPlaying)}
IframeOverlayToggle ==
    /\ DirectEmbedOpen /\ useIframe
    /\ isPlaying' = ~isPlaying
    /\ UNCHANGED <<isMuted, volume, progress, playbackRate, video>>
    /\ CtlStep

\* The listeners of the direct-playback effect, bound when canPlayDirectly is set
\* and the <video> is mounted: play and pause,
OnPlayPause ==
    /\ DirectEmbedOpen /\ DirectControl
    /\ isPlaying = video.paused
    /\ isPlaying' = ~video.paused
    /\ UNCHANGED <<isMuted, volume, progress, playbackRate, video>>
    /\ CtlStep

\* volumechange,
OnVolumeChange ==
    /\ DirectEmbedOpen /\ DirectControl
    /\ <<volume, isMuted>> # <<video.volume, video.muted>>
    /\ volume' = video.volume
    /\ isMuted' = video.muted
    /\ UNCHANGED <<isPlaying, progress, playbackRate, video>>
    /\ CtlStep

\* timeupdate,
OnTimeUpdate ==
    /\ DirectEmbedOpen /\ DirectControl
    /\ progress # video.currentTime
    /\ progress' = video.currentTime
    /\ UNCHANGED <<isPlaying, isMuted, volume, playbackRate, video>>
    /\ CtlStep

\* and ratechange, which finds the rate handlePlaybackRateChange has set already.
OnRateChange ==
    /\ DirectEmbedOpen /\ DirectControl
    /\ playbackRate' = video.playbackRate
    /\ UNCHANGED <<isPlaying, isMuted, volume, progress, video>>
    /\ CtlStep

\* The iframe-only player (VideoPlayer.tsx, lines 985-1252): its overlay is
\* rendered whenever the error view is not.
IframeOpen == variant = "iframe" /\ isOpen /\ ~hasError

IfTogglePlay ==
    /\ IframeOpen
    /\ isPlaying' = ~isPlaying
    /\ UNCHANGED <<isMuted, volume, progress, playbackRate, video>>
    /\ CtlStep

IfToggleMute ==
    /\ IframeOpen
    /\ isMuted' = ~isMuted
    /\ UNCHANGED <<isPlaying, volume, progress, playbackRate, video>>
    /\ CtlStep

IfHandleVolumeChange ==
    /\ IframeOpen
    /\ \E value \in VolumeLevels :
          volume' = value /\ isMuted' = (value = 0)
    /\ UNCHANGED <<isPlaying, progress, playbackRate, video>>
    /\ CtlStep

\* The video.js player after ready and loadeddata: the error listener of
\* player.one('error', ..) is still bound.
VjLoaded == [alive |-> TRUE, readyPending |-> FALSE, onError |-> 0,
             onLoadedData |-> FALSE]

InitControls ==
    /\ variant \in {"direct_embed", "iframe", "videojs"}
    /\ videoSources = (IF variant = "videojs" THEN <<"hls">> ELSE <<"embed">>)
    /\ isOpen = TRUE
    /\ currentSource = 0
    /\ errorMessage = ""
    /\ IF variant \in {"iframe", "videojs"}
       THEN /\ isLoading \in (IF variant = "iframe" THEN BOOLEAN ELSE {FALSE})
            /\ hasError = FALSE /\ useIframe = FALSE /\ canPlayDirectly = FALSE
            /\ videoEl = 0
       ELSE \E m \in ControlModes :
               /\ canPlayDirectly = m[1] /\ useIframe = m[2] /\ hasError = m[3]
               /\ isLoading = m[4] /\ videoEl = m[5]
    /\ capIsLoading = TRUE
    /\ attempts = <<>>
    /\ micro = <<>>
    /\ elCount = videoEl
    /\ iframeLoad = (IF useIframe THEN "loaded" ELSE "none")
    /\ iframeSrc = 0
    /\ deadTimers = 0
    /\ retryCount = 0
    /\ player = (IF variant = "videojs" THEN VjLoaded ELSE NoPlayer)
    /\ retryTimer = -1
    /\ staleTimers = 0
    /\ attemptLog = <<0>>
    /\ nCmds = 1
    /\ succeeded = (~isLoading /\ ~hasError)
    /\ CtlInit
    /\ TmdbInit

\* handleWaiting (player.on('waiting', ..)): setIsBuffering(true) sets no
\* state of the source controller
HandleWaiting_Loading(s) == [s EXCEPT !.isLoading = TRUE]

HandleWaiting(s) == s

\* handleCanPlay (player.on('canplay', ..)): setIsBuffering(false)
HandleCanPlay(s) == s

\* The render a buffering signal causes, with the effects whose dependencies
\* have changed: the state of the direct/embed player it leaves,
Rerender(n) ==
    /\ videoSources' = n.videoSources
    /\ isOpen' = n.isOpen
    /\ currentSource' = n.currentSource
    /\ hasError' = n.hasError
    /\ errorMessage' = n.errorMessage
    /\ isLoading' = n.isLoading
    /\ useIframe' = n.useIframe
    /\ canPlayDirectly' = n.canPlayDirectly
    /\ capIsLoading' = n.capIsLoading
    /\ attempts' = n.attempts
    /\ micro' = n.micro
    /\ videoEl' = n.videoEl
    /\ elCount' = n.elCount
    /\ iframeLoad' = n.iframeLoad
    /\ iframeSrc' = n.iframeSrc
    /\ deadTimers' = n.deadTimers
    /\ attemptLog' = n.attemptLog
    /\ UNCHANGED <<variant, nCmds, succeeded, vjVars, tmdbVars>>
    /\ UNCHANGED <<isPlaying, isMuted, volume, progress, playbackRate, video>>

\* and of the video.js player.
VjRerender(n) ==
    /\ videoSources' = n.videoSources
    /\ isOpen' = n.isOpen
    /\ currentSource' = n.currentSource
    /\ hasError' = n.hasError
    /\ errorMessage' = n.errorMessage
    /\ isLoading' = n.isLoading
    /\ retryCount' = n.retryCount
    /\ player' = n.player
    /\ retryTimer' = n.retryTimer
    /\ staleTimers' = n.staleTimers
    /\ attemptLog' = n.attemptLog
    /\ UNCHANGED <<variant, nCmds, succeeded, deVars, tmdbVars>>
    /\ UNCHANGED <<isPlaying, isMuted, volume, progress, playbackRate, video>>

\* waiting and canplay on the <video> in direct playback
OnWaiting ==
    /\ DirectEmbedOpen /\ DirectControl
    /\ isBuffering' = TRUE
    /\ Rerender(Flush(HandleWaiting(Cur), currentSource))

OnCanPlay ==
    /\ DirectEmbedOpen /\ DirectControl
    /\ isBuffering' = FALSE
    /\ Rerender(Flush(HandleCanPlay(Cur), currentSource))

\* waiting and canplay of the video.js player
VjOnWaiting ==
    /\ variant = "videojs" /\ isOpen /\ player.alive
    /\ isBuffering' = TRUE
    /\ VjRerender(VjFlush(HandleWaiting(VCur), currentSource))

VjOnCanPlay ==
    /\ variant = "videojs" /\ isOpen /\ player.alive
    /\ isBuffering' = FALSE
    /\ VjRerender(VjFlush(HandleCanPlay(VCur), currentSource))

ControlCommand ==
    \/ TogglePlay
    \/ ToggleMute
    \/ HandleVolumeChange
    \/ SkipForward
    \/ SkipBackward
    \/ HandleProgressChange
    \/ HandlePlaybackRateChange
    \/ IframeOverlayToggle
    \/ IfTogglePlay
    \/ IfToggleMute
    \/ IfHandleVolumeChange

NextControls ==
    \/ TogglePlay
    \/ ToggleMute
    \/ HandleVolumeChange
    \/ SkipForward
    \/ SkipBackward
    \/ HandleProgressChange
    \/ HandlePlaybackRateChange
    \/ IframeOverlayToggle
    \/ OnPlayPause
    \/ OnVolumeChange
    \/ OnTimeUpdate
    \/ OnRateChange
    \/ OnWaiting
    \/ OnCanPlay
    \/ VjOnWaiting
    \/ VjOnCanPlay
    \/ IfTogglePlay
    \/ IfToggleMute
    \/ IfHandleVolumeChange

SpecControls == InitControls /\ [][NextControls]_vars

\* The player shows a source in direct playback (playing or buffering).
InDirectPlayback == canPlayDirectly /\ VideoShown(Cur)

\* C11: a play/pause, seek, volume, mute or rate command given while the
\* player is not in direct playback changes nothing.
C11_DirectOnlyNoOp ==
    [][(ControlCommand /\ ~InDirectPlayback) => UNCHANGED vars]_vars

\* C12: from the exhausted state the reset command sets the index to 0, clears
\* the error and starts an attempt on candidate 0.
C12_ResetRestarts ==
    [][(hasError /\ (ResetPlayer \/ VjResetPlayer)) =>
          /\ currentSource' = 0
          /\ ~hasError'
          /\ attemptLog' = Append(attemptLog, 0)]_vars

\* C13: opening the player starts a fresh session: index 0, no error, no
\* failure message, no playback flag, and the first attempt started is on
\* candidate 0.
C13_OpenStartsFresh ==
    [][(Open \/ VjOpen) =>
          /\ currentSource' = 0
          /\ ~hasError'
          /\ errorMessage' \in {"", "loading"}
          /\ ~canPlayDirectly' /\ ~useIframe'
          /\ Len(attemptLog') > Len(attemptLog)
          /\ attemptLog'[Len(attemptLog) + 1] = 0]_vars

\* The indices attempted so far.
Attempted == {attemptLog[k] : k \in 1..Len(attemptLog)}

\* C14: while the player is open the exhausted state is entered only by the
\* failure of an attempt, after every candidate has been attempted, and never
\* by a user command.
C14_ExhaustedOnlyAfterAll ==
    [][(isOpen /\ isOpen' /\ ~hasError /\ hasError') =>
          /\ nCmds' = nCmds
          /\ \A i \in 0..(N - 1) : i \in Attempted']_vars

\* The timers still pending: the 10 s timers of tryDirectVideo, of unsettled and
\* of settled promises, and the retry timers of the video.js player.
PendingTimers ==
    Cardinality({k \in 1..Len(attempts) : attempts[k].timer}) + deadTimers
      + (IF retryTimer # -1 THEN 1 ELSE 0) + staleTimers

\* C15: at most one timeout timer is pending at any moment.
C15_OneTimerPending == PendingTimers <= 1

\* ------------------------------------------------------- the TMDB client
\* src/unnamed/part_001 (the service) with src/unnamed/part_003 (the validators,
\* the rate limiter and the error handler).  A call is modelled up to its
\* fetch(): the validation, the rate limiter, the request that leaves, or the
\* error thrown and what handleSecureError in the caller's catch makes of it.

\* const rateLimiter = new RateLimiter(100, 60000), scaled down
maxRequests == 2

windowMs == 3

\* Date.now() of the last call
MaxTime == 4

\* sanitized.slice(0, 100)
QueryLimit == 100

\* Math.max(1, Math.min(1000, ..))
PageMax == 1000

RateLimitMessage == "Rate limit exceeded. Please try again later."

InvalidQueryMessage == "Invalid search query"

\* validateSortBy: allowedSorts
AllowedSorts ==
    {"popularity.desc", "popularity.asc", "release_date.desc", "release_date.asc",
     "vote_average.desc", "vote_average.asc", "vote_count.desc", "vote_count.asc"}

\* The <SelectItem> values of the "Sort By" filter.
UiSorts == {"popularity.desc", "vote_average.desc", "release_date.desc", "title.asc"}

\* The values discoverMovies is called with.
SortInputs == AllowedSorts \cup UiSorts \cup {Undefined, "", "revenue.desc", "popularity"}

\* validateSortBy(sortBy), null being Undefined
ValidateSortBy(sortBy) ==
    IF sortBy \in {Undefined, ""} \/ sortBy \notin AllowedSorts
    THEN Undefined
    ELSE sortBy

\* The characters /[<>\"'&]/g removes, and those trim() removes.
Dangerous == {"<", ">", "\"", "'", "&"}

Whitespace == {" ", "\n"}

RECURSIVE TrimStart(_)
TrimStart(s) ==
    IF s # <<>> /\ Head(s) \in Whitespace THEN TrimStart(Tail(s)) ELSE s

RECURSIVE TrimEnd(_)
TrimEnd(s) ==
    IF s # <<>> /\ s[Len(s)] \in Whitespace
    THEN TrimEnd(SubSeq(s, 1, Len(s) - 1))
    ELSE s

Trim(s) == TrimEnd(TrimStart(s))

Remove(s) == SelectSeq(s, LAMBDA c : c \notin Dangerous)

\* validateSearchQuery without the replace
ValidateSearchQuery_NoReplace(query) ==
    IF ~query.str \/ query.chars = <<>>
    THEN <<>>
    ELSE LET sanitized == Trim(query.chars)
         IN  SubSeq(sanitized, 1, Min(Len(sanitized), QueryLimit))

\* validateSearchQuery(query): a query is its characters, or not a string at all
ValidateSearchQuery(query) ==
    IF ~query.str \/ query.chars = <<>>
    THEN <<>>
    ELSE LET sanitized == Trim(Remove(query.chars))
         IN  SubSeq(sanitized, 1, Min(Len(sanitized), QueryLimit))

Rep(c, n) == [i \in 1..n |-> c]

Str(chars) == [str |-> TRUE, chars |-> chars]

\* The queries searchMovies is called with: empty, blank, only dangerous
\* characters, mixed, and around the length limit before and after the replace.
Queries ==
    {[str |-> FALSE, chars |-> <<>>],
     Str(<<>>),
     Str(<<" ">>),
     Str(<<"<", ">", " ", "&">>),
     Str(<<"a">>),
     Str(<<" ", "a", "<", "b", "'", " ">>),
     Str(Rep("a", QueryLimit)),
     Str(Rep("a", QueryLimit + 1)),
     Str(Rep("a", QueryLimit - 1) \o <<"<", "b", "c">>),
     Str(Rep("a", QueryLimit - 1) \o <<" ", "b">>),
     Str(Rep("a", QueryLimit + 1) \o <<"\"">>)}

\* A page is a number in tenths, or NaN.
PageOf(t) == [nan |-> FALSE, tenths |-> t]

Pages ==
    {[nan |-> TRUE, tenths |-> 0]} \cup
    {PageOf(t) : t \in {-25, 5, 25, 10 * PageMax + 5, 10 * (PageMax + 1)}}

\* parseInt(String(page), 10) || 1
ParseIntOr1(page) ==
    LET n == IF page.tenths >= 0 THEN page.tenths \div 10
             ELSE 0 - ((0 - page.tenths) \div 10)
    IN  IF page.nan \/ n = 0 THEN 1 ELSE n

\* Math.max(1, Math.min(1000, parseInt(String(page), 10) || 1))
ValidPage(page) == Max(1, Min(PageMax, ParseIntOr1(page)))

\* requests.filter(time => now - time <= this.windowMs)
ValidRequests_Inclusive(reqs, key, t) ==
    SelectSeq(reqs[key], LAMBDA time : t - time <= windowMs)

\* requests.filter(time => now - time < this.windowMs)
ValidRequests(reqs, key, t) ==
    SelectSeq(reqs[key], LAMBDA time : t - time < windowMs)

\* isAllowed with `validRequests.length > this.maxRequests`
IsAllowed_Greater(reqs, key, t) ==
    LET validRequests == ValidRequests(reqs, key, t)
    IN  IF Len(validRequests) > maxRequests
        THEN [allowed |-> FALSE, requests |-> reqs]
        ELSE [allowed |-> TRUE,
              requests |-> [reqs EXCEPT ![key] = Append(validRequests, t)]]

\* isAllowed(key) at Date.now() = t: the answer and the map it leaves
IsAllowed(reqs, key, t) ==
    LET validRequests == ValidRequests(reqs, key, t)
    IN  IF Len(validRequests) >= maxRequests
        THEN [allowed |-> FALSE, requests |-> reqs]
        ELSE [allowed |-> TRUE,
              requests |-> [reqs EXCEPT ![key] = Append(validRequests, t)]]

\* handleSecureError(error): the event it logs
HandleSecureError(errClass) ==
    CASE errClass = "SecurityError" -> "security_error"
      [] errClass = "RateLimitError" -> "rate_limit_exceeded"
      [] errClass = "ValidationError" -> "validation_error"
      [] OTHER -> "unknown_error"

\* `throw new Error(message)`, caught by the page, which calls handleSecureError
Thrown(call, message) ==
    [call EXCEPT !.outcome = "throw", !.errClass = "Error", !.errMessage = message,
                 !.event = HandleSecureError("Error"),
                 !.sort_by = Undefined, !.query = <<>>, !.page = 0]

TmdbStep == UNCHANGED <<sharedVars, deVars, vjVars, ctlVars, handled>>

\* fetchFromTMDB(endpoint, params), `call` holding the parameters to send
FetchFromTMDB(call) ==
    LET r == IsAllowed(requests, "global", now)
    IN  /\ requests' = r.requests
        /\ lastCheck' = [key |-> "global", time |-> now, allowed |-> r.allowed]
        /\ IF r.allowed
           THEN /\ fetched' = Append(fetched, now)
                /\ lastCall' = [call EXCEPT !.outcome = "fetch"]
           ELSE /\ fetched' = fetched
                /\ lastCall' = Thrown(call, RateLimitMessage)
        /\ UNCHANGED now
        /\ TmdbStep

\* getPopularMovies(page) and the other lists: the page is sent as it is given
GetPopularMovies ==
    FetchFromTMDB([NoCall EXCEPT !.op = "popular", !.page = 1])

\* discoverMovies(params)
DiscoverOf(sortBy, page) ==
    FetchFromTMDB([NoCall EXCEPT !.op = "discover", !.sortIn = sortBy,
                                 !.sort_by = ValidateSortBy(sortBy),
                                 !.page = ValidPage(page)])

DiscoverMovies == \E sortBy \in SortInputs, page \in Pages : DiscoverOf(sortBy, page)

\* searchMovies(query, page)
SearchOf(query, page) ==
    LET sanitizedQuery == ValidateSearchQuery(query)
    IN  IF sanitizedQuery = <<>>
        THEN /\ lastCall' = Thrown([NoCall EXCEPT !.op = "search"], InvalidQueryMessage)
             /\ UNCHANGED <<now, requests, fetched, lastCheck>>
             /\ TmdbStep
        ELSE FetchFromTMDB([NoCall EXCEPT !.op = "search", !.query = sanitizedQuery,
                                          !.page = ValidPage(page)])

SearchMovies == \E query \in Queries, page \in Pages : SearchOf(query, page)

\* Time passes between two calls.
Tick ==
    /\ now < MaxTime
    /\ now' = now + 1
    /\ UNCHANGED <<requests, fetched, lastCheck, lastCall>>
    /\ TmdbStep

InitTmdb ==
    /\ Init
    /\ variant = "direct_embed"
    /\ videoSources = <<"embed">>

NextTmdb ==
    \/ GetPopularMovies
    \/ DiscoverMovies
    \/ SearchMovies
    \/ Tick

SpecTmdb == InitTmdb /\ [][NextTmdb]_vars

\* The fetch() calls made in the window (t - windowMs, t].
InWindow(t) ==
    Cardinality({k \in 1..Len(fetched) : t - windowMs < fetched[k] /\ fetched[k] <= t})

WindowLimit == \A t \in 0..now : InWindow(t) <= maxRequests

\* A step of the service: the calls are the steps that leave the clock alone,
\* and lastCall says which call it was.
ServiceStep(op) == now' = now /\ lastCall'.op = op

\* A service call that reaches fetchFromTMDB: any but a search that is refused.
FetchFromTMDBCall ==
    /\ \E op \in {"popular", "discover", "search"} : ServiceStep(op)
    /\ lastCall'.errMessage # InvalidQueryMessage

\* C16: no window of windowMs holds more than maxRequests fetch() calls, and a
\* fetchFromTMDB call made when the window is full throws the rate-limit error
\* without a request.
C16_RateLimit ==
    [][/\ WindowLimit'
       /\ (FetchFromTMDBCall /\ InWindow(now) >= maxRequests) =>
             /\ fetched' = fetched
             /\ lastCall'.outcome = "throw"
             /\ lastCall'.errMessage = RateLimitMessage]_vars

C16_Witness ==
    /\ lastCall.outcome = "throw"
    /\ lastCall.errMessage = RateLimitMessage
    /\ InWindow(now) = maxRequests
    /\ Len(fetched) > maxRequests

\* C17: the error of a call the rate limiter rejected is logged by
\* handleSecureError as the event rate_limit_exceeded.
C17_RejectionClassified ==
    (lastCall.outcome = "throw" /\ lastCall.errMessage = RateLimitMessage) =>
        lastCall.event = "rate_limit_exceeded"

\* C18: after an isAllowed(key) call at time t every timestamp stored for key is
\* less than windowMs before t, and no key has more than maxRequests stored.
C18_StoredWithinWindow ==
    \A key \in Keys :
        /\ Len(requests[key]) <= maxRequests
        /\ lastCheck.key = key =>
              \A k \in 1..Len(requests[key]) :
                  lastCheck.time - requests[key][k] < windowMs

C18_Witness ==
    /\ lastCheck.key = "global"
    /\ ~lastCheck.allowed
    /\ Len(requests["global"]) = maxRequests
    /\ Len(fetched) > Len(requests["global"])

\* C19: discoverMovies sends sort_by only for an allowed sort, as it was given,
\* and sends every sort the filter offers.
C19_SortWhitelist ==
    (lastCall.op = "discover" /\ lastCall.outcome = "fetch") =>
        /\ lastCall.sort_by # Undefined =>
              lastCall.sort_by \in AllowedSorts /\ lastCall.sort_by = lastCall.sortIn
        /\ lastCall.sortIn \in UiSorts => lastCall.sort_by = lastCall.sortIn

\* searchMovies threw `message` and made no request.
SearchThrew(message) ==
    /\ lastCall'.outcome = "throw"
    /\ lastCall'.errMessage = message
    /\ fetched' = fetched

\* searchMovies made a request with a clean query and a page in range.
SearchFetched ==
    /\ lastCall'.outcome = "fetch"
    /\ fetched' = Append(fetched, now)
    /\ Len(lastCall'.query) \in 1..QueryLimit
    /\ \A k \in 1..Len(lastCall'.query) : lastCall'.query[k] \notin Dangerous
    /\ lastCall'.page \in 1..PageMax

\* C20 as stated: searchMovies throws 'Invalid search query' without a request,
\* or makes a request with a clean query of at most 100 characters and a page
\* in 1..1000.
C20_InvalidOrClean ==
    [][ServiceStep("search") =>
          (SearchThrew(InvalidQueryMessage) \/ SearchFetched)]_vars

\* C20, amended: searchMovies throws 'Invalid search query' or the rate-limit
\* error without a request, or makes a request with a clean query of at most
\* 100 characters and a page in 1..1000.
C20_InvalidLimitedOrClean ==
    [][ServiceStep("search") =>
          \/ SearchThrew(InvalidQueryMessage)
          \/ SearchThrew(RateLimitMessage)
          \/ SearchFetched]_vars

C20_Witness ==
    /\ lastCall.op = "search"
    /\ lastCall.outcome = "fetch"
    /\ Len(lastCall.query) = QueryLimit
    /\ lastCall.page = PageMax

\* C24: in the direct/embed player the error view and the loading state are
\* never active together.
C24_ErrorExcludesLoading ==
    variant = "direct_embed" => ~(hasError /\ isLoading)

\* C25: in the direct/embed player useIframe and canPlayDirectly are never both
\* set, and neither is set while hasError is.
C25_ModesExclusive ==
    variant = "direct_embed" =>
        /\ ~(useIframe /\ canPlayDirectly)
        /\ hasError => (~useIframe /\ ~canPlayDirectly)

\* A waiting or canplay signal of the playing source.
BufferingSignal == OnWaiting \/ OnCanPlay \/ VjOnWaiting \/ VjOnCanPlay

\* C22: a buffering signal during playback changes neither the index nor the
\* loading and error flags, and starts no attempt.
C22_BufferingOnlyFlag ==
    [][BufferingSignal =>
          UNCHANGED <<currentSource, isLoading, hasError, attemptLog>>]_vars

C22_Witness == isBuffering /\ (canPlayDirectly \/ player.alive) /\ ~isLoading

\* Some index has been attempted more than MaxRetries times in a row.
TooManyInARow ==
    \E k \in 1..(Len(attemptLog) - MaxRetries) :
        \A j \in 1..MaxRetries : attemptLog[k + j] = attemptLog[k]

\* C23: in the video.js player, with no source loading and no command but open
\* and reset, no index is attempted more than three times in a row.
C23_AtMostThreeInARow ==
    (variant = "videojs" /\ isOpen /\ nCmds <= 2 /\ ~succeeded) => ~TooManyInARow

\* ------------------------------------------------------ handleSecureError
\* The errors a catch block hands to handleSecureError: the class, the message
\* and, for a ValidationError, the field.
ErrorClasses == {"SecurityError", "RateLimitError", "ValidationError", "Error", "TypeError"}

ErrorMessages ==
    {RateLimitMessage, InvalidQueryMessage, "TMDB API error: 401 Unauthorized"}

ErrorFields == {Undefined, "query", "year"}

Errors ==
    {[class |-> c, message |-> m, field |-> f] :
        c \in ErrorClasses \ {"ValidationError"}, m \in ErrorMessages, f \in {Undefined}}
    \cup
    {[class |-> "ValidationError", message |-> m, field |-> f] :
        m \in ErrorMessages, f \in ErrorFields}

\* The strings handleSecureError returns; `arg` fills the ${..} of the template.
Answer(text, arg) == [text |-> text, arg |-> arg]

\* handleSecureError returning error.message in its last branch
SecureMessage_Leaky(error) ==
    CASE error.class = "SecurityError" ->
            Answer("Security validation failed. Please try again.", "")
      [] error.class = "RateLimitError" ->
            Answer("Too many requests. Please wait a moment and try again.", "")
      [] error.class = "ValidationError" ->
            Answer("Invalid ${}. Please check your input and try again.",
                   IF error.field = Undefined THEN "input" ELSE error.field)
      [] OTHER -> Answer(error.message, "")

\* handleSecureError(error): the string it returns
SecureMessage(error) ==
    CASE error.class = "SecurityError" ->
            Answer("Security validation failed. Please try again.", "")
      [] error.class = "RateLimitError" ->
            Answer("Too many requests. Please wait a moment and try again.", "")
      [] error.class = "ValidationError" ->
            Answer("Invalid ${}. Please check your input and try again.",
                   IF error.field = Undefined THEN "input" ELSE error.field)
      [] OTHER -> Answer("An unexpected error occurred. Please try again later.", "")

\* A catch block calls handleSecureError(error) and shows the answer in a toast.
HandleSecureErrorCall ==
    /\ \E error \in Errors :
          handled' = (IF handled = <<>> THEN <<>> ELSE <<handled[Len(handled)]>>)
                       \o <<[error |-> error, shown |-> SecureMessage(error)]>>
    /\ UNCHANGED <<now, requests, fetched, lastCheck, lastCall>>
    /\ UNCHANGED <<sharedVars, deVars, vjVars, ctlVars>>

NextErrors == HandleSecureErrorCall

SpecErrors == InitTmdb /\ [][NextErrors]_vars

\* C21: two errors of the same class (and field) that differ in their message
\* are answered with the same string.
C21_MessageIndependent ==
    \A i, j \in 1..Len(handled) :
        (/\ handled[i].error.class = handled[j].error.class
         /\ handled[i].error.field = handled[j].error.field)
            => handled[i].shown = handled[j].shown

C21_Witness ==
    /\ Len(handled) = 2
    /\ handled[1].error.class = handled[2].error.class
    /\ handled[1].error.message # handled[2].error.message
    /\ handled[1].error.class \notin {"SecurityError", "RateLimitError", "ValidationError"}
====
